---------------------------- MODULE Spec2Model ----------------------------
(***************************************************************************)
(* Model of viral_tweets.ipynb: the notebook's code cells 2..7 run top to  *)
(* bottom over the data frame all_tweets that cell 1 loaded.               *)
(*                                                                         *)
(* Numbers.  The notebook computes in floating point; the model computes   *)
(* exactly:                                                                *)
(*   - the median is kept in halves (median = halves / 2);                 *)
(*   - a standardized value z is kept as [num, den2], z = num / sqrt(den2) *)
(*     with den2 > 0;                                                      *)
(*   - an accuracy is kept as <<correct, total>>.                          *)
(* A Python exception ends the run: pc = "error" and error names it.       *)
(***************************************************************************)
EXTENDS Integers, Sequences, FiniteSets

(* ------------------------------ bounds -------------------------------- *)

\* largest data frame the pipeline is run on (records of SweepPool)
MaxN == 8
\* largest data frame over every kind of record, complete or not
MaxSmallN == 3
\* last k of the sweep: range(1, 200) in the notebook, scaled to MaxN
LastK == 6
\* Label Builder on its own: longest retweet_count column, largest count
MaxLen == 4
MaxCount == 2

(* --------------------------- program constants ------------------------ *)

\* KNeighborsClassifier(n_neighbors=5) of cell 6
StandaloneK == 5

VARIABLES
    all_tweets,        \* rows of the data frame (cell 1), in row order
    median_retweets,   \* [nan, halves]
    is_viral,          \* column all_tweets["is_viral"]
    tweet_length,      \* column all_tweets['tweet_length']
    followers_count,   \* column all_tweets['followers_count']
    friends_count,     \* column all_tweets['friends_count']
    labels,
    data,
    scaled_data,
    ind_train,         \* row numbers train_test_split put in the train part
    ind_test,          \* row numbers train_test_split put in the test part
    train_data,
    test_data,
    train_labels,
    test_labels,
    classifier,        \* [fitted, n_neighbors, X, y]
    model_score,
    scores,
    k,                 \* loop variable of cell 7
    plotted,           \* what plt.plot was given: [x, y]
    pc,                \* the cell to run next, "done" or "error"
    error,             \* the exception that ended the run, or "none"
    origin,            \* history: origin[j] = first position of the row now at j
    first_labels,      \* history: the labels computed before any reordering
    reordered,         \* history: the rows were reordered
    rerun,             \* history: this is the second run on the same input
    prev               \* history: partitions and scores of the first run

vars == <<all_tweets, median_retweets, is_viral, tweet_length, followers_count,
          friends_count, labels, data, scaled_data, ind_train, ind_test,
          train_data, test_data, train_labels, test_labels, classifier,
          model_score, scores, k, plotted, pc, error, origin, first_labels,
          reordered, rerun, prev>>

(* ------------------------------ helpers ------------------------------- *)

RECURSIVE SeqSum(_)
SeqSum(s) == IF s = <<>> THEN 0 ELSE Head(s) + SeqSum(Tail(s))

RECURSIVE Insert(_, _)
Insert(x, s) ==
    IF s = <<>> THEN <<x>>
    ELSE IF x <= Head(s) THEN <<x>> \o s
    ELSE <<Head(s)>> \o Insert(x, Tail(s))

RECURSIVE Sort(_)
Sort(s) == IF s = <<>> THEN <<>> ELSE Insert(Head(s), Sort(Tail(s)))

Column(rows, name) == [i \in 1..Len(rows) |-> rows[i][name]]


(* ---------------------- cell 2: the Label Builder --------------------- *)

NaN == [nan |-> TRUE, halves |-> 0]

\* a mistaken median: the lower middle value of an even-length column
MedianLowerMiddle(s) ==
    IF s = <<>> THEN NaN
    ELSE [nan |-> FALSE, halves |-> 2 * Sort(s)[(Len(s) + 1) \div 2]]

\* a mistaken median: the middle of the column as it stands, not sorted
MedianUnsorted(s) ==
    IF s = <<>> THEN NaN
    ELSE IF Len(s) % 2 = 1
         THEN [nan |-> FALSE, halves |-> 2 * s[(Len(s) + 1) \div 2]]
         ELSE [nan |-> FALSE,
               halves |-> s[Len(s) \div 2] + s[Len(s) \div 2 + 1]]

\* Series.median(): NaN for an empty column, else the middle value of the
\* sorted column, the mean of the two middle values when the length is even
Median(s) ==
    IF s = <<>> THEN NaN
    ELSE LET sorted == Sort(s)
             n == Len(s)
         IN  IF n % 2 = 1
             THEN [nan |-> FALSE, halves |-> 2 * sorted[(n + 1) \div 2]]
             ELSE [nan |-> FALSE,
                   halves |-> sorted[n \div 2] + sorted[n \div 2 + 1]]

\* x >= m for an integer x and a float m; every comparison with NaN is False
GreaterEqual(x, m) == IF m.nan THEN FALSE ELSE 2 * x >= m.halves

\* np.where(col >= m, 1, 0)
WhereAtLeast(col, m) ==
    [i \in 1..Len(col) |-> IF GreaterEqual(col[i], m) THEN 1 ELSE 0]

LabelBuilder ==
    /\ pc = "cell2"
    /\ median_retweets' = Median(Column(all_tweets, "retweet_count"))
    /\ is_viral' = WhereAtLeast(Column(all_tweets, "retweet_count"),
                                median_retweets')
    /\ pc' = "cell3"
    /\ UNCHANGED <<all_tweets, tweet_length, followers_count, friends_count,
                   labels, data, scaled_data, ind_train, ind_test, train_data,
                   test_data, train_labels, test_labels, classifier,
                   model_score, scores, k, plotted, error, origin,
                   first_labels, reordered, rerun, prev>>

(* -------------------- cell 3: the Feature Extractor ------------------- *)

\* the value of a failed lookup: the exception it raised
Raised(exc) == [ok |-> FALSE, exc |-> exc, val |-> 0]
Value(v) == [ok |-> TRUE, exc |-> "none", val |-> v]

\* a mistaken lookup that yields None (val -1 here) for a missing field
UserFieldOrNone(tweet, key) ==
    IF "user" \notin DOMAIN tweet THEN Value(-1)
    ELSE IF "nan" \in DOMAIN tweet.user \/ key \notin DOMAIN tweet.user
    THEN Value(-1)
    ELSE Value(tweet.user[key])

\* tweet['user'][key]: KeyError when the frame has no user column; a row
\* whose record had no user holds NaN, a float, and subscripting it raises
\* TypeError; a dict without the key, KeyError
UserField(tweet, key) ==
    IF "user" \notin DOMAIN tweet THEN Raised("KeyError")
    ELSE IF "nan" \in DOMAIN tweet.user THEN Raised("TypeError")
    ELSE IF key \notin DOMAIN tweet.user THEN Raised("KeyError")
    ELSE Value(tweet.user[key])

\* len(tweet['text'])
TextLength(tweet) == Value(Len(tweet.text))

FollowersOf(tweet) == UserField(tweet, "followers_count")
FriendsOf(tweet) == UserField(tweet, "friends_count")

\* DataFrame.apply(f, axis=1), given what f returns or raises on each row:
\* the rows are visited in row order and the first exception ends it
ApplyRows(res) ==
    LET bad == {i \in 1..Len(res) : ~res[i].ok}
    IN  IF bad = {}
        THEN [ok |-> TRUE, exc |-> "none",
              col |-> [i \in 1..Len(res) |-> res[i].val]]
        ELSE [ok |-> FALSE,
              exc |-> res[CHOOSE i \in bad : \A j \in bad : i <= j].exc,
              col |-> <<>>]

FeatureExtractor ==
    /\ pc = "cell3"
    /\ LET rows == 1..Len(all_tweets)
           len == ApplyRows([i \in rows |-> TextLength(all_tweets[i])])
           fol == ApplyRows([i \in rows |-> FollowersOf(all_tweets[i])])
           fri == ApplyRows([i \in rows |-> FriendsOf(all_tweets[i])])
       IN  /\ tweet_length' = len.col
           /\ followers_count' = IF fol.ok THEN fol.col ELSE followers_count
           /\ friends_count' =
                  IF fol.ok /\ fri.ok THEN fri.col ELSE friends_count
           /\ IF fol.ok /\ fri.ok
              THEN pc' = "cell4" /\ error' = error
              ELSE pc' = "error"
                   /\ error' = IF fol.ok THEN fri.exc ELSE fol.exc
    /\ UNCHANGED <<all_tweets, median_retweets, is_viral, labels, data,
                   scaled_data, ind_train, ind_test, train_data, test_data,
                   train_labels, test_labels, classifier, model_score, scores,
                   k, plotted, origin, first_labels, reordered, rerun, prev>>

(* ------------------------ cell 4: the Normalizer ---------------------- *)

NumColumns == 3

\* data = all_tweets[['tweet_length', 'followers_count', 'friends_count']]
FeatureMatrix(len, fol, fri) ==
    [i \in 1..Len(len) |-> <<len[i], fol[i], fri[i]>>]

MatrixColumn(X, c) == [i \in 1..Len(X) |-> X[i][c]]

SumOfSquares(col) == SeqSum([i \in 1..Len(col) |-> col[i] * col[i]])

\* n^2 times the population variance of col: n * sum(x^2) - sum(x)^2
ScaledVariance(col) ==
    Len(col) * SumOfSquares(col) - SeqSum(col) * SeqSum(col)

\* a mistaken standardization: the sample standard deviation (ddof = 1),
\* z = (x - mean) / sqrt(sum((x - mean)^2) / (n - 1))
StandardizeSample(col) ==
    LET n == Len(col)
        S == SeqSum(col)
        D == ScaledVariance(col)
    IN  [i \in 1..n |->
            IF D = 0 THEN [num |-> n * col[i] - S, den2 |-> n * n]
            ELSE [num |-> (n * col[i] - S) * (n - 1),
                  den2 |-> n * D * (n - 1)]]

\* one column of scale(data, axis=0): (x - mean) / std with the population
\* standard deviation, and std 0 replaced by 1.  With S = sum(x) and
\* D = n*sum(x^2) - S^2: mean = S/n, std = sqrt(D)/n, so
\* z = (n*x - S) / sqrt(D), and z = (n*x - S) / n when D = 0
Standardize(col) ==
    LET n == Len(col)
        S == SeqSum(col)
        D == ScaledVariance(col)
    IN  [i \in 1..n |->
            [num |-> n * col[i] - S, den2 |-> IF D = 0 THEN n * n ELSE D]]

\* scale(data, axis=0): every column standardized over all the rows
Scale(X) ==
    LET cols == [c \in 1..NumColumns |-> Standardize(MatrixColumn(X, c))]
    IN  [i \in 1..Len(X) |-> [c \in 1..NumColumns |-> cols[c][i]]]

Normalizer ==
    /\ pc = "cell4"
    /\ labels' = is_viral
    /\ data' = FeatureMatrix(tweet_length, followers_count, friends_count)
    /\ scaled_data' = Scale(data')
    /\ pc' = "cell5"
    /\ UNCHANGED <<all_tweets, median_retweets, is_viral, tweet_length,
                   followers_count, friends_count, ind_train, ind_test,
                   train_data, test_data, train_labels, test_labels,
                   classifier, model_score, scores, k, plotted, error, origin,
                   first_labels, reordered, rerun, prev>>

(* ------------------------- cell 5: the Splitter ----------------------- *)

\* test_size=0.2
TestSize == [num |-> 1, den |-> 5]

\* n_test = ceil(test_size * n_samples)
NumTest(n) == (n * TestSize.num + TestSize.den - 1) \div TestSize.den

\* n_train = n_samples - n_test (train_size is None)
NumTrain(n) == n - NumTest(n)

\* RandomState(1).permutation(n), n = 0..10, rows counted from 1: the
\* Mersenne Twister seeded with 1 followed by numpy's shuffle
SeededPermutation(n) ==
    << <<>>,
       <<1>>,
       <<1, 2>>,
       <<1, 3, 2>>,
       <<4, 3, 1, 2>>,
       <<3, 2, 5, 1, 4>>,
       <<3, 2, 5, 1, 4, 6>>,
       <<7, 3, 2, 1, 5, 4, 6>>,
       <<8, 3, 2, 7, 1, 5, 4, 6>>,
       <<9, 3, 7, 8, 2, 1, 5, 4, 6>>,
       <<3, 10, 7, 5, 1, 4, 2, 8, 9, 6>> >>[n + 1]

\* a mistaken split, random_state left out: the generator is seeded from
\* the clock and the permutation differs between runs (two outcomes here)
UnseededPermutations(n) ==
    {SeededPermutation(n), [i \in 1..n |-> n + 1 - i]}

\* the permutations rng.permutation(n_samples) can return: random_state=1
\* fixes the generator's state, so there is one
ShufflePermutations(n) == {SeededPermutation(n)}

\* ind_test = permutation[:n_test]
TestIndices(perm) == SubSeq(perm, 1, NumTest(Len(perm)))

\* a mistaken slice that starts one place early: a row in both parts
TrainIndicesOverlap(perm) == SubSeq(perm, NumTest(Len(perm)), Len(perm))

\* ind_train = permutation[n_test:(n_test + n_train)]
TrainIndices(perm) == SubSeq(perm, NumTest(Len(perm)) + 1, Len(perm))

\* _safe_indexing(a, indices)
SafeIndexing(a, indices) == [p \in 1..Len(indices) |-> a[indices[p]]]

\* a mistaken split of the matrix: each part standardized again by its own
\* statistics
IndexDataRescaled(X, indices) == Scale(SafeIndexing(data, indices))

\* the rows of the first array (scaled_data) in a part
IndexData(X, indices) == SafeIndexing(X, indices)

\* a mistaken split of the labels: taken in row order, not by the indices
IndexLabelsInOrder(y, indices) == SubSeq(y, 1, Len(indices))

\* the rows of the second array (labels) in a part
IndexLabels(y, indices) == SafeIndexing(y, indices)

Splitter ==
    /\ pc = "cell5"
    /\ IF NumTrain(Len(scaled_data)) = 0
       THEN \* "the resulting train set will be empty"
            /\ pc' = "error"
            /\ error' = "ValueError"
            /\ UNCHANGED <<ind_train, ind_test, train_data, test_data,
                           train_labels, test_labels>>
       ELSE \E perm \in ShufflePermutations(Len(scaled_data)) :
            /\ ind_test' = TestIndices(perm)
            /\ ind_train' = TrainIndices(perm)
            /\ train_data' = IndexData(scaled_data, ind_train')
            /\ test_data' = IndexData(scaled_data, ind_test')
            /\ train_labels' = IndexLabels(labels, ind_train')
            /\ test_labels' = IndexLabels(labels, ind_test')
            /\ pc' = "cell6"
            /\ error' = error
    /\ UNCHANGED <<all_tweets, median_retweets, is_viral, tweet_length,
                   followers_count, friends_count, labels, data, scaled_data,
                   classifier, model_score, scores, k, plotted, origin,
                   first_labels, reordered, rerun, prev>>

(* ------------------- cells 6 and 7: the Classifier -------------------- *)

NoClassifier == [fitted |-> FALSE, n_neighbors |-> 0, X |-> <<>>, y |-> <<>>]

\* a mistaken fit that keeps the classifier object already there (and its
\* n_neighbors) and only fits it again, instead of constructing a new one
FitExistingClassifier(n, X, y) ==
    IF classifier.fitted
    THEN [classifier EXCEPT !.X = X, !.y = y]
    ELSE [fitted |-> TRUE, n_neighbors |-> n, X |-> X, y |-> y]

\* KNeighborsClassifier(n_neighbors=n).fit(X, y): a new object holding the
\* training set
Fit(n, X, y) == [fitted |-> TRUE, n_neighbors |-> n, X |-> X, y |-> y]

RECURSIVE SeqProduct(_)
SeqProduct(s) == IF s = <<>> THEN 1 ELSE Head(s) * SeqProduct(Tail(s))

\* the squared Euclidean distance of two standardized rows, times the
\* product of the columns' den2 (the same for every row of one matrix):
\* sum over c of (a[c].num - b[c].num)^2 / den2[c]
Distance2(a, b) ==
    LET den == [c \in 1..NumColumns |-> a[c].den2]
    IN  SeqSum([c \in 1..NumColumns |->
                 (a[c].num - b[c].num) * (a[c].num - b[c].num)
                 * SeqProduct([e \in 1..NumColumns |->
                                  IF e = c THEN 1 ELSE den[e]])])

\* the distances from x to the training rows j, j+1, ..., in training order
RECURSIVE Distances(_, _, _)
Distances(X, x, j) ==
    IF j > Len(X) THEN <<>>
    ELSE <<Distance2(x, X[j])>> \o Distances(X, x, j + 1)

\* the n_neighbors training rows nearest to x; rows at the same distance
\* are taken in training order
Neighbors(clf, x) ==
    LET d == Distances(clf.X, x, 1)
    IN  {j \in 1..Len(d) :
            Cardinality({i \in 1..Len(d) :
                            d[i] < d[j] \/ (d[i] = d[j] /\ i < j)})
                < clf.n_neighbors}

\* predict: the majority label of the neighbors; of two labels with the
\* same number of votes the smaller one
Predict(clf, x) ==
    LET nb == Neighbors(clf, x)
        ones == Cardinality({j \in nb : clf.y[j] = 1})
        zeros == Cardinality({j \in nb : clf.y[j] = 0})
    IN  IF ones > zeros THEN 1 ELSE 0

\* a mistaken bound: n_neighbors equal to the training-set size refused too
ScoreRefusingTrainSize(clf, X, y) ==
    IF clf.n_neighbors >= Len(clf.X) THEN Raised("ValueError")
    ELSE Value(<<Cardinality({i \in 1..Len(X) : Predict(clf, X[i]) = y[i]}),
                 Len(X)>>)

\* classifier.score(X, y): the share of rows predicted right, as
\* <<correct, total>>; kneighbors raises ValueError ("Expected n_neighbors
\* <= n_samples") when the training set holds fewer than n_neighbors rows
Score(clf, X, y) ==
    IF clf.n_neighbors > Len(clf.X) THEN Raised("ValueError")
    ELSE Value(<<Cardinality({i \in 1..Len(X) : Predict(clf, X[i]) = y[i]}),
                 Len(X)>>)

UseClassifier ==
    /\ pc = "cell6"
    /\ classifier' = Fit(StandaloneK, train_data, train_labels)
    /\ LET res == Score(classifier', test_data, test_labels)
       IN  IF res.ok
           THEN /\ model_score' = res.val
                /\ pc' = "cell7"
                /\ error' = error
           ELSE /\ pc' = "error"
                /\ error' = res.exc
                /\ UNCHANGED model_score
    /\ UNCHANGED <<all_tweets, median_retweets, is_viral, tweet_length,
                   followers_count, friends_count, labels, data, scaled_data,
                   ind_train, ind_test, train_data, test_data, train_labels,
                   test_labels, scores, k, plotted, origin, first_labels,
                   reordered, rerun, prev>>

\* range(1, 200), scaled: the k values of the sweep
SweepRange == 1..LastK

\* a mistaken loop step that skips every second k
NextKSkipping(n) == n + 2

\* the loop variable's next value
NextK(n) == n + 1

\* scores = [] and the loop variable's first value
StartSweep ==
    /\ pc = "cell7"
    /\ scores' = <<>>
    /\ k' = 1
    /\ pc' = "loop"
    /\ UNCHANGED <<all_tweets, median_retweets, is_viral, tweet_length,
                   followers_count, friends_count, labels, data, scaled_data,
                   ind_train, ind_test, train_data, test_data, train_labels,
                   test_labels, classifier, model_score, plotted, error,
                   origin, first_labels, reordered, rerun, prev>>

\* the rows of a sequence in the opposite order
Reversed(rows) == [i \in 1..Len(rows) |-> rows[Len(rows) + 1 - i]]

\* a mistaken pass of the sweep whose fit reorders the training rows and
\* their labels in place
SweepStepReorderingTrain ==
    /\ pc = "loop"
    /\ k \in SweepRange
    /\ train_data' = Reversed(train_data)
    /\ train_labels' = Reversed(train_labels)
    /\ classifier' = [fitted |-> TRUE, n_neighbors |-> k,
                      X |-> train_data', y |-> train_labels']
    /\ LET res == Score(classifier', test_data, test_labels)
       IN  IF res.ok
           THEN /\ scores' = Append(scores, res.val)
                /\ k' = k + 1
                /\ UNCHANGED <<pc, error>>
           ELSE /\ pc' = "error"
                /\ error' = res.exc
                /\ UNCHANGED <<scores, k>>
    /\ UNCHANGED <<all_tweets, median_retweets, is_viral, tweet_length,
                   followers_count, friends_count, labels, data, scaled_data,
                   ind_train, ind_test, test_data, test_labels, model_score,
                   plotted, origin, first_labels, reordered, rerun, prev>>

\* one pass of "for k in range(1, 200)": a new classifier, fit, score, append
SweepStep ==
    /\ pc = "loop"
    /\ k \in SweepRange
    /\ classifier' = Fit(k, train_data, train_labels)
    /\ LET res == Score(classifier', test_data, test_labels)
       IN  IF res.ok
           THEN /\ scores' = Append(scores, res.val)
                /\ k' = NextK(k)
                /\ UNCHANGED <<pc, error>>
           ELSE /\ pc' = "error"
                /\ error' = res.exc
                /\ UNCHANGED <<scores, k>>
    /\ UNCHANGED <<all_tweets, median_retweets, is_viral, tweet_length,
                   followers_count, friends_count, labels, data, scaled_data,
                   ind_train, ind_test, train_data, test_data, train_labels,
                   test_labels, model_score, plotted, origin, first_labels,
                   reordered, rerun, prev>>

\* a mistaken plot that runs although the loop ended with an exception,
\* over the accuracies recorded so far
PlotDespiteError ==
    /\ \/ pc = "loop" /\ k \notin SweepRange
       \/ pc = "error" /\ k >= 1
    /\ plotted' = [x |-> [i \in 1..Len(scores) |-> i], y |-> scores]
    /\ pc' = "done"
    /\ error' = error
    /\ UNCHANGED <<all_tweets, median_retweets, is_viral, tweet_length,
                   followers_count, friends_count, labels, data, scaled_data,
                   ind_train, ind_test, train_data, test_data, train_labels,
                   test_labels, classifier, model_score, scores, k, origin,
                   first_labels, reordered, rerun, prev>>

\* plt.plot(range(1, 200), scores); plt.show(): x and y must be as long
Plot ==
    /\ pc = "loop"
    /\ k \notin SweepRange
    /\ IF Len(scores) = Cardinality(SweepRange)
       THEN /\ plotted' = [x |-> [i \in 1..LastK |-> i], y |-> scores]
            /\ pc' = "done"
            /\ error' = error
       ELSE /\ pc' = "error"
            /\ error' = "ValueError"
            /\ UNCHANGED plotted
    /\ UNCHANGED <<all_tweets, median_retweets, is_viral, tweet_length,
                   followers_count, friends_count, labels, data, scaled_data,
                   ind_train, ind_test, train_data, test_data, train_labels,
                   test_labels, classifier, model_score, scores, k, origin,
                   first_labels, reordered, rerun, prev>>

(* --------------------------- runs and inputs -------------------------- *)

NoRun == [train_data |-> <<>>, test_data |-> <<>>, train_labels |-> <<>>,
          test_labels |-> <<>>, model_score |-> <<>>, scores |-> <<>>]

\* the state of a fresh kernel that has run cell 1 on the rows in frame
Loaded(frame) ==
    /\ all_tweets = frame
    /\ median_retweets = NaN
    /\ is_viral = <<>>
    /\ tweet_length = <<>>
    /\ followers_count = <<>>
    /\ friends_count = <<>>
    /\ labels = <<>>
    /\ data = <<>>
    /\ scaled_data = <<>>
    /\ ind_train = <<>>
    /\ ind_test = <<>>
    /\ train_data = <<>>
    /\ test_data = <<>>
    /\ train_labels = <<>>
    /\ test_labels = <<>>
    /\ classifier = NoClassifier
    /\ model_score = <<>>
    /\ scores = <<>>
    /\ k = 0
    /\ plotted = [x |-> <<>>, y |-> <<>>]
    /\ pc = "cell2"
    /\ error = "none"
    /\ origin = [i \in 1..Len(frame) |-> i]
    /\ first_labels = <<>>
    /\ reordered = FALSE

\* records with every field the notebook reads
GoodPool ==
    { [retweet_count |-> 0, text |-> "a",
       user |-> [followers_count |-> 0, friends_count |-> 1]],
      [retweet_count |-> 1, text |-> "abc",
       user |-> [followers_count |-> 2, friends_count |-> 1]],
      [retweet_count |-> 3, text |-> "ab",
       user |-> [followers_count |-> 2, friends_count |-> 0]] }

\* records with a field missing: no user at all, a user without
\* followers_count, a user without friends_count
BadPool ==
    { [retweet_count |-> 1, text |-> "a"],
      [retweet_count |-> 1, text |-> "a", user |-> [friends_count |-> 1]],
      [retweet_count |-> 1, text |-> "a", user |-> [followers_count |-> 1]] }

HasMissingField(tweet) ==
    \/ "user" \notin DOMAIN tweet
    \/ "followers_count" \notin DOMAIN tweet.user
    \/ "friends_count" \notin DOMAIN tweet.user

\* pd.read_json(..., lines=True): one row per record, one column per key
\* found in any record; a row whose record lacks a column's key holds NaN
ReadJson(records) ==
    [i \in 1..Len(records) |->
        IF "user" \in DOMAIN records[i]
               \/ \A j \in 1..Len(records) : "user" \notin DOMAIN records[j]
        THEN records[i]
        ELSE [retweet_count |-> records[i].retweet_count,
              text |-> records[i].text,
              user |-> [nan |-> TRUE]]]

FramesOver(pool, lo, hi) == UNION {[1..n -> pool] : n \in lo..hi}

\* the two kinds of record the long frames are made of
SweepPool == {r \in GoodPool : r.retweet_count # 1}

Frames ==
    FramesOver(SweepPool, 1, MaxN)
    \cup FramesOver(GoodPool \cup BadPool, 1, MaxSmallN)

Init ==
    /\ \E records \in Frames : Loaded(ReadJson(records))
    /\ rerun = FALSE
    /\ prev = NoRun

\* the whole notebook run again, in a fresh kernel, on the same file
Rerun ==
    /\ pc = "done"
    /\ ~rerun
    /\ rerun' = TRUE
    /\ prev' = [train_data |-> train_data, test_data |-> test_data,
                train_labels |-> train_labels, test_labels |-> test_labels,
                model_score |-> model_score, scores |-> scores]
    /\ median_retweets' = NaN
    /\ is_viral' = <<>>
    /\ tweet_length' = <<>>
    /\ followers_count' = <<>>
    /\ friends_count' = <<>>
    /\ labels' = <<>>
    /\ data' = <<>>
    /\ scaled_data' = <<>>
    /\ ind_train' = <<>>
    /\ ind_test' = <<>>
    /\ train_data' = <<>>
    /\ test_data' = <<>>
    /\ train_labels' = <<>>
    /\ test_labels' = <<>>
    /\ classifier' = NoClassifier
    /\ model_score' = <<>>
    /\ scores' = <<>>
    /\ k' = 0
    /\ plotted' = [x |-> <<>>, y |-> <<>>]
    /\ pc' = "cell2"
    /\ UNCHANGED <<all_tweets, error, origin, first_labels, reordered>>

Next ==
    \/ LabelBuilder
    \/ FeatureExtractor
    \/ Normalizer
    \/ Splitter
    \/ UseClassifier
    \/ StartSweep
    \/ SweepStep
    \/ Plot
    \/ Rerun

Spec == Init /\ [][Next]_vars

(* ---------------- the Label Builder on a column of counts ------------- *)

CountRecord(n) ==
    [retweet_count |-> n, text |-> "",
     user |-> [followers_count |-> 0, friends_count |-> 0]]

CountFrames ==
    FramesOver({CountRecord(n) : n \in 0..MaxCount}, 0, MaxLen)

LabelInit ==
    /\ \E records \in CountFrames : Loaded(ReadJson(records))
    /\ rerun = FALSE
    /\ prev = NoRun

Swap(s, j) ==
    [i \in 1..Len(s) |-> IF i = j THEN s[j + 1]
                         ELSE IF i = j + 1 THEN s[j] ELSE s[i]]

\* the same records in another row order (two neighbouring rows change
\* places), and cell 2 run again
Reorder ==
    /\ pc = "cell3"
    /\ \E j \in 1..(Len(all_tweets) - 1) :
          /\ all_tweets' = Swap(all_tweets, j)
          /\ origin' = Swap(origin, j)
    /\ first_labels' = IF reordered THEN first_labels ELSE is_viral
    /\ reordered' = TRUE
    /\ pc' = "cell2"
    /\ UNCHANGED <<median_retweets, is_viral, tweet_length, followers_count,
                   friends_count, labels, data, scaled_data, ind_train,
                   ind_test, train_data, test_data, train_labels, test_labels,
                   classifier, model_score, scores, k, plotted, error, rerun,
                   prev>>

LabelNext ==
    \/ LabelBuilder
    \/ Reorder

LabelSpec == LabelInit /\ [][LabelNext]_vars

(* ============================ properties ============================== *)

Range(s) == {s[i] : i \in 1..Len(s)}

CountOf(s, v) == Cardinality({i \in 1..Len(s) : s[i] = v})

RetweetCounts == Column(all_tweets, "retweet_count")

\* the r-th smallest value of a non-empty column, by counting: fewer than r
\* values lie below it and at least r do not lie above it
KthSmallest(col, r) ==
    CHOOSE v \in Range(col) :
        /\ Cardinality({i \in 1..Len(col) : col[i] < v}) < r
        /\ Cardinality({i \in 1..Len(col) : col[i] <= v}) >= r

\* twice the statistical median of a non-empty column: the two middle
\* values of the ranking added (the same value twice when the length is odd)
StatisticalMedianHalves(col) ==
    KthSmallest(col, (Len(col) + 1) \div 2)
        + KthSmallest(col, Len(col) \div 2 + 1)

\* C1: for a non-empty column of retweet counts, once cell 2 has run every
\* record has exactly one label, 0 or 1, and the label is 1 exactly when the
\* record's retweet_count is at least the statistical median of the column
\* (the mean of the two middle values when the length is even); a record
\* equal to the median is labelled 1.
C1_LabelIffAtLeastMedian ==
    (pc = "cell3" /\ all_tweets # <<>>) =>
        /\ Len(is_viral) = Len(all_tweets)
        /\ ~median_retweets.nan
        /\ median_retweets.halves = StatisticalMedianHalves(RetweetCounts)
        /\ \A i \in 1..Len(all_tweets) :
              /\ is_viral[i] \in {0, 1}
              /\ is_viral[i] = 1 <=>
                    2 * RetweetCounts[i]
                        >= StatisticalMedianHalves(RetweetCounts)

\* an even-length column labelled, with a record equal to the median
\* (labelled 1) and a record below it (labelled 0)
C1_Witness ==
    /\ pc = "cell3"
    /\ Len(all_tweets) >= 2
    /\ Len(all_tweets) % 2 = 0
    /\ \E i, j \in 1..Len(all_tweets) :
          /\ 2 * RetweetCounts[i] = StatisticalMedianHalves(RetweetCounts)
          /\ is_viral[i] = 1
          /\ is_viral[j] = 0

\* C2: the labels do not depend on the row order: after any reordering of
\* the records, the label cell 2 gives the row now at position j is the
\* label it gave that record in the first order; so the numbers of 1s and
\* 0s are unchanged and add up to the number of records.
C2_LabelsInvariantUnderReordering ==
    (pc = "cell3" /\ reordered) =>
        /\ Len(is_viral) = Len(first_labels)
        /\ \A j \in 1..Len(is_viral) : is_viral[j] = first_labels[origin[j]]
        /\ CountOf(is_viral, 1) = CountOf(first_labels, 1)
        /\ CountOf(is_viral, 0) = CountOf(first_labels, 0)
        /\ CountOf(is_viral, 1) + CountOf(is_viral, 0) = Len(all_tweets)

\* rows in another order than at first, labelled again, both labels in use
C2_Witness ==
    /\ pc = "cell3"
    /\ reordered
    /\ \E j \in 1..Len(origin) : origin[j] # j
    /\ \E i, j \in 1..Len(is_viral) :
          i < j /\ is_viral[i] = 1 /\ is_viral[j] = 0

NumRows == Len(all_tweets)

\* train_test_split has returned in this run
SplitDone == ind_train # <<>>

\* the three raw features of a record, read from its fields
RawFeature(tweet, c) ==
    IF c = 1 THEN Len(tweet.text)
    ELSE IF c = 2 THEN tweet.user.followers_count
    ELSE tweet.user.friends_count

RawColumn(c) == [i \in 1..NumRows |-> RawFeature(all_tweets[i], c)]

\* C3: the split keeps rows together: for every record i, the part (Train or
\* Test) and position where i's normalized feature vector lands hold the
\* label computed for record i in cell 2, the one the median rule gives its
\* retweet_count.
C3_RowCorrespondence ==
    SplitDone =>
        \A i \in 1..NumRows :
            \/ \E p \in 1..Len(ind_train) :
                  /\ ind_train[p] = i
                  /\ train_data[p] = scaled_data[i]
                  /\ train_labels[p] = is_viral[i]
                  /\ train_labels[p] = 1 <=>
                        2 * all_tweets[i].retweet_count
                            >= median_retweets.halves
            \/ \E p \in 1..Len(ind_test) :
                  /\ ind_test[p] = i
                  /\ test_data[p] = scaled_data[i]
                  /\ test_labels[p] = is_viral[i]
                  /\ test_labels[p] = 1 <=>
                        2 * all_tweets[i].retweet_count
                            >= median_retweets.halves

\* a split that moved rows, of records with different labels and vectors
C3_Witness ==
    /\ SplitDone
    /\ \E p \in 1..Len(ind_train) : ind_train[p] # p
    /\ \E p, q \in 1..Len(ind_train) :
          /\ train_labels[p] # train_labels[q]
          /\ train_data[p] # train_data[q]
    /\ \E p, q \in 1..Len(ind_test) : test_labels[p] # test_labels[q]

\* C4: Train and Test are a partition of the data set: every record's
\* (vector, label) pair is at exactly one position of exactly one part.
C4_DisjointPartition ==
    SplitDone =>
        /\ Len(train_data) = Len(ind_train)
        /\ Len(train_labels) = Len(ind_train)
        /\ Len(test_data) = Len(ind_test)
        /\ Len(test_labels) = Len(ind_test)
        /\ Len(ind_train) + Len(ind_test) = NumRows
        /\ Range(ind_train) \cap Range(ind_test) = {}
        /\ \A i \in 1..NumRows :
              Cardinality({p \in 1..Len(ind_train) : ind_train[p] = i})
                + Cardinality({p \in 1..Len(ind_test) : ind_test[p] = i}) = 1

\* a split with several rows in each part
C4_Witness ==
    /\ SplitDone
    /\ Len(ind_test) >= 2
    /\ Len(ind_train) >= 2

\* the accuracy of the n-nearest-neighbor classifier fit on Train, on Test
Accuracy(n) ==
    Score(Fit(n, train_data, train_labels), test_data, test_labels).val

\* C5: the sweep's output holds one accuracy for each k of the range, in
\* increasing k order: while the loop runs, scores holds the accuracies of
\* k = 1 .. k-1, entry j being the accuracy of the j-nearest-neighbor
\* classifier fit on Train and scored on Test; when it has finished, scores
\* holds exactly one entry for each k of the range (LastK entries) and the
\* plot pairs entry j with k = j.
C5_OneScorePerKInOrder ==
    /\ pc = "loop" =>
          /\ k \in 1..(LastK + 1)
          /\ Len(scores) = k - 1
    /\ pc \in {"loop", "done"} =>
          \A j \in 1..Len(scores) : scores[j] = Accuracy(j)
    /\ pc = "done" =>
          /\ Len(scores) = LastK
          /\ plotted.x = [j \in 1..LastK |-> j]
          /\ plotted.y = scores

\* a finished sweep whose accuracy changes with k
C5_Witness ==
    /\ pc = "done"
    /\ Len(scores) = LastK
    /\ \E i, j \in 1..Len(scores) : scores[i] # scores[j]

\* C6: a second run of the whole notebook on the same input gives the same
\* Train and Test parts and the same sequence of accuracies as the first.
C6_Deterministic ==
    rerun =>
        /\ SplitDone =>
              /\ train_data = prev.train_data
              /\ test_data = prev.test_data
              /\ train_labels = prev.train_labels
              /\ test_labels = prev.test_labels
        /\ pc \in {"cell7", "loop", "done"} =>
              model_score = prev.model_score
        /\ pc \in {"loop", "done"} =>
              scores = SubSeq(prev.scores, 1, Len(scores))
        /\ pc = "done" => scores = prev.scores

\* the second run has finished its sweep
C6_Witness ==
    /\ rerun
    /\ pc = "done"
    /\ Len(scores) = LastK
    /\ \E p \in 1..Len(ind_train) : ind_train[p] # p

NonConstant(c) ==
    \E i, j \in 1..NumRows : RawColumn(c)[i] # RawColumn(c)[j]

Normalized == scaled_data # <<>>

\* C7: every column of the Normalizer's output whose input is not constant
\* has mean 0 and population standard deviation 1, each entry being
\* (value - column mean) / column population standard deviation.  With
\* z = num / sqrt(den2) and dev = n * (value - mean): the nums add up to 0,
\* their squares to n * den2, and z * std = value - mean, squared and with
\* the sign (n^2 * std^2 = sum(dev^2) / n).
C7_ZeroMeanUnitVariance ==
    Normalized =>
        \A c \in 1..NumColumns :
            NonConstant(c) =>
                LET col == MatrixColumn(scaled_data, c)
                    raw == RawColumn(c)
                    total == SeqSum(raw)
                    dev == [i \in 1..NumRows |-> NumRows * raw[i] - total]
                    ssd == SeqSum([i \in 1..NumRows |-> dev[i] * dev[i]])
                IN  /\ \A i \in 1..NumRows : col[i].den2 = col[1].den2
                    /\ col[1].den2 > 0
                    /\ SeqSum([i \in 1..NumRows |-> col[i].num]) = 0
                    /\ SeqSum([i \in 1..NumRows |-> col[i].num * col[i].num])
                          = NumRows * col[1].den2
                    /\ \A i \in 1..NumRows :
                          /\ col[i].num * dev[i] >= 0
                          /\ col[i].num * col[i].num * ssd
                             = NumRows * dev[i] * dev[i] * col[i].den2

\* a normalized matrix of three or more rows with a column that varies
C7_Witness ==
    /\ Normalized
    /\ NumRows >= 3
    /\ \E c \in 1..NumColumns :
          /\ NonConstant(c)
          /\ \E i, j \in 1..NumRows :
                scaled_data[i][c].num > 0 /\ scaled_data[j][c].num < 0

\* column c standardized with the statistics of all the records, from the
\* records' own fields
WholeDatasetColumn(c) ==
    LET raw == RawColumn(c)
        total == SeqSum(raw)
        den2 == IF NonConstant(c)
                THEN NumRows * SumOfSquares(raw) - total * total
                ELSE NumRows * NumRows
    IN  [i \in 1..NumRows |-> [num |-> NumRows * raw[i] - total, den2 |-> den2]]

\* C8: the split works on the matrix that was normalized before it, with
\* the mean and standard deviation of all N rows: every row of Train and of
\* Test is the row of scaled_data it was drawn from, standardized with the
\* statistics of the whole data set, never with those of its own part.
C8_NormalizedBeforeSplitOverAllRows ==
    SplitDone =>
        /\ Normalized
        /\ Len(scaled_data) = NumRows
        /\ \A c \in 1..NumColumns :
              LET whole == WholeDatasetColumn(c)
              IN  /\ \A p \in 1..Len(ind_train) :
                        /\ train_data[p][c] = scaled_data[ind_train[p]][c]
                        /\ train_data[p][c] = whole[ind_train[p]]
                  /\ \A p \in 1..Len(ind_test) :
                        /\ test_data[p][c] = scaled_data[ind_test[p]][c]
                        /\ test_data[p][c] = whole[ind_test[p]]

\* a split whose Train part has another mean than the whole data set
C8_Witness ==
    /\ SplitDone
    /\ \E c \in 1..NumColumns :
          /\ NonConstant(c)
          /\ SeqSum([p \in 1..Len(train_data) |-> train_data[p][c].num]) # 0

SomeFieldMissing == \E i \in 1..NumRows : HasMissingField(all_tweets[i])

\* C10: when a record has no user object, or its user has no
\* followers_count or no friends_count, cell 3 fails with the lookup's
\* error (MissingField: Python's KeyError, or TypeError for a row that
\* holds NaN where other records have a user) and the run ends
\* there: no feature matrix is built, and no feature column ever holds a
\* null in place of a count.
C10_MissingFieldFails ==
    /\ (SomeFieldMissing /\ pc \notin {"cell2", "cell3"}) =>
          /\ pc = "error"
          /\ error \in {"KeyError", "TypeError"}
          /\ data = <<>>
          /\ scaled_data = <<>>
          /\ friends_count = <<>>
    /\ \A i \in 1..Len(followers_count) : followers_count[i] >= 0
    /\ \A i \in 1..Len(friends_count) : friends_count[i] >= 0

\* cell 3 failed on a record whose user has followers_count but no
\* friends_count, after the followers_count column was filled
C10_Witness ==
    /\ pc = "error"
    /\ error = "KeyError"
    /\ followers_count # <<>>
    /\ \E i \in 1..NumRows :
          /\ "user" \in DOMAIN all_tweets[i]
          /\ "friends_count" \notin DOMAIN all_tweets[i].user

\* cell 4 has run (or failed) in this run
NormalizerRan == data # <<>>

\* C11: when a feature column is constant over all the rows (standard
\* deviation 0), cell 4 fails with an error (DegenerateColumn) and returns
\* no normalized matrix.
C11_ConstantColumnFails ==
    (NormalizerRan /\ \E c \in 1..NumColumns : ~NonConstant(c)) =>
        /\ pc = "error"
        /\ error # "none"
        /\ scaled_data = <<>>

\* a pass of the sweep loop is about to run for the current k
SweepStepDue == pc = "loop" /\ k \in SweepRange

\* the pass failed: the run ended with this exception, nothing was recorded
StepFailed(exc) == pc' = "error" /\ error' = exc /\ scores' = scores

\* the pass recorded one accuracy and the loop goes on
StepRecorded == pc' = "loop" /\ Len(scores') = Len(scores) + 1

\* C12 as stated: for every k of the sweep range that is greater than or
\* equal to the number of training points (k equal to the training-set size
\* included), the sweep step for that k fails and records no accuracy.
C12_StepFailsFromTrainSize ==
    [][(SweepStepDue /\ k >= Len(train_data)) => StepFailed("ValueError")]_vars

\* C12 as amended: for every k of the sweep range that is greater than the
\* number of training points, the sweep step for that k fails (InvalidK:
\* sklearn's ValueError) and records no accuracy; every k up to and
\* including the training-set size is valid and its accuracy is recorded.
C12_StepFailsAboveTrainSize ==
    [][SweepStepDue =>
          IF k > Len(train_data) THEN StepFailed("ValueError")
          ELSE StepRecorded]_vars

\* the sweep failed at the first k above the training-set size, after it
\* recorded the accuracy of k equal to the training-set size
C12_Witness ==
    /\ pc = "error"
    /\ error = "ValueError"
    /\ k = Len(train_data) + 1
    /\ k \in SweepRange
    /\ Len(scores) = Len(train_data)
    /\ classifier.n_neighbors = k

\* cell 7 has set up its loop in this run
SweepStarted == k >= 1

\* C13: a failure for one k (InvalidK) does not end the sweep: the run does
\* not stop with an error inside the loop, and when the sweep is done the
\* accuracy of every valid k (k up to the training-set size) is in the
\* output.
C13_SweepSurvivesInvalidK ==
    /\ SweepStarted => pc # "error"
    /\ pc = "done" =>
          \A j \in SweepRange :
              j <= Len(train_data) =>
                  /\ j \in DOMAIN plotted.y
                  /\ plotted.y[j] = Accuracy(j)

\* the results of the cells after the first one that did not finish are
\* not there
LaterCellsNotRun ==
    /\ (tweet_length = <<>> \/ friends_count = <<>>) => data = <<>>
    /\ data = <<>> => scaled_data = <<>>
    /\ scaled_data = <<>> => ~SplitDone
    /\ ~SplitDone =>
          /\ train_data = <<>> /\ test_data = <<>>
          /\ train_labels = <<>> /\ test_labels = <<>>
          /\ ~classifier.fitted
    /\ ~classifier.fitted => model_score = <<>>
    /\ model_score = <<>> => (scores = <<>> /\ ~SweepStarted)

\* C14: every error ends the run: once a step has failed (pc = "error") no
\* further step is taken, by any cell or by a retry, so nothing changes any
\* more; the cells after the failed one have not run and nothing was
\* plotted.
C14_ErrorsAreTerminal ==
    /\ [](pc = "error" =>
             /\ error # "none"
             /\ LaterCellsNotRun
             /\ plotted = [x |-> <<>>, y |-> <<>>])
    /\ [][pc = "error" => UNCHANGED vars]_vars

\* a sweep pass failed after accuracies were recorded
C14_Witness ==
    /\ pc = "error"
    /\ error = "ValueError"
    /\ SweepStarted
    /\ Len(scores) >= 1

\* a classifier constructed with n_neighbors = n and fit on Train, written
\* out field by field
TrainedOn(n) ==
    [fitted |-> TRUE, n_neighbors |-> n, X |-> train_data, y |-> train_labels]

\* C15: every pass of the sweep leaves a classifier newly constructed for
\* its k and fit on Train, so the accuracy recorded for k is that of the
\* k-nearest-neighbor classifier on Train and Test alone, whatever earlier
\* passes or cell 6's classifier held; the sweep's entry for k = 5 equals
\* model_score, the standalone k = 5 score of cell 6.
C15_FreshClassifierPerK ==
    /\ (pc \in {"loop", "done"} /\ Len(scores) >= 1) =>
          classifier = TrainedOn(Len(scores))
    /\ pc = "cell7" => classifier = TrainedOn(StandaloneK)
    /\ (pc = "error" /\ SweepStarted) => classifier = TrainedOn(k)
    /\ pc \in {"loop", "done", "error"} =>
          \A j \in 1..Len(scores) :
              scores[j] = Score(TrainedOn(j), test_data, test_labels).val
    /\ (pc \in {"loop", "done", "error"} /\ Len(scores) >= StandaloneK) =>
          scores[StandaloneK] = model_score

\* a finished sweep whose entry for k = 5 is cell 6's score and differs
\* from the entry of another k
C15_Witness ==
    /\ pc = "done"
    /\ Len(scores) >= StandaloneK
    /\ scores[StandaloneK] = model_score
    /\ \E j \in 1..Len(scores) : scores[j] # model_score

\* the four parts of the partition and what they were drawn from
Partition == <<train_data, train_labels, test_data, test_labels>>
DrawnFrom == <<scaled_data, labels, ind_train, ind_test>>

\* everything the run holds but the scores list, the current classifier, the
\* loop variable and the position of the run
OutsideSweep ==
    <<all_tweets, median_retweets, is_viral, tweet_length, followers_count,
      friends_count, labels, data, scaled_data, ind_train, ind_test,
      train_data, test_data, train_labels, test_labels, model_score, plotted>>

\* C16: once drawn, the partition is read-only: no step of cell 6 or of the
\* sweep of cell 7 (its start, any pass for any k, failing or not) changes
\* train_data, train_labels, test_data or test_labels, nor the normalized
\* matrix and the label vector they were drawn from; a pass of the sweep
\* changes nothing but the scores list and the current classifier (and the
\* loop variable and the position of the run).
C16_PartitionReadOnly ==
    /\ [][(pc \in {"cell6", "cell7", "loop"}) =>
             (UNCHANGED Partition /\ UNCHANGED DrawnFrom)]_vars
    /\ [][SweepStepDue => UNCHANGED OutsideSweep]_vars

\* two passes of the sweep have run over a drawn partition
C16_Witness ==
    /\ SplitDone
    /\ pc = "loop"
    /\ Len(scores) >= 2
    /\ classifier.n_neighbors = Len(scores)
    /\ train_data # <<>> /\ test_data # <<>>
    /\ Reversed(train_data) # train_data

=============================================================================
